---- MODULE Spec2Model ----
(***************************************************************************)
(* Model of dspy_hub/hub.py: package materialisation (load_from_hub),      *)
(* publication (save_to_hub, save_program_to_hub, _package_program), file  *)
(* resolution (_select_package_file) and the program load/save boundary.   *)
(*                                                                         *)
(* Text and byte strings are sequences of one-character strings.  A hex    *)
(* digest is the token sequence <<"sha256(">> \o bytes \o <<")">>: SHA-256 *)
(* is modelled as a collision-free symbolic function whose output is again *)
(* a string, so digests can be joined and hashed again as the code does.   *)
(* Python's None is the one-token sequence <<"None">>.                     *)
(***************************************************************************)
EXTENDS Integers, Sequences, FiniteSets, TLC

VARIABLES pc, op, identifier, registry, package, origin, outcome, events,
          program, instance, target, selected, tmpdir, pending, artifact,
          artifact_name, package_metadata, dev_key, env_key, request

vars == <<pc, op, identifier, registry, package, origin, outcome, events,
          program, instance, target, selected, tmpdir, pending, artifact,
          artifact_name, package_metadata, dev_key, env_key, request>>

\* ------------------------------------------------------------------ bounds
MaxFiles == 2

\* ------------------------------------------------------- Python primitives
None == <<"None">>

Truthy(s) == s # None /\ s # <<>>

EmptyMap == [k \in {} |-> ""]

\* dict.get(key) with the default None
Get(d, k) == IF k \in DOMAIN d THEN d[k] ELSE None

\* {**a, **b}: keys of both, b's value on conflict
MergeMaps(a, b) ==
  [k \in (DOMAIN a) \cup (DOMAIN b) |-> IF k \in DOMAIN b THEN b[k] ELSE a[k]]

Contains(s, ch) == \E i \in 1..Len(s) : s[i] = ch

FirstIndex(s, ch) ==
  IF Contains(s, ch)
    THEN CHOOSE i \in 1..Len(s) : s[i] = ch /\ \A j \in 1..(i - 1) : s[j] # ch
    ELSE 0

LastIndex(s, ch) ==
  IF Contains(s, ch)
    THEN CHOOSE i \in 1..Len(s) : s[i] = ch /\ \A j \in (i + 1)..Len(s) : s[j] # ch
    ELSE 0

\* s.split("/", 1)[0]
SplitHead(s) == IF Contains(s, "/") THEN SubSeq(s, 1, FirstIndex(s, "/") - 1) ELSE s

\* s.split("/", 1)[1] (the caller has checked that "/" occurs)
SplitTail(s) == SubSeq(s, FirstIndex(s, "/") + 1, Len(s))

\* s.split("/")[-1]
LastSegment(s) == SubSeq(s, LastIndex(s, "/") + 1, Len(s))

EndsWith(s, suffix) ==
  /\ Len(suffix) <= Len(s)
  /\ SubSeq(s, Len(s) - Len(suffix) + 1, Len(s)) = suffix

RECURSIVE LStrip(_, _)
LStrip(s, ch) == IF s # <<>> /\ Head(s) = ch THEN LStrip(Tail(s), ch) ELSE s

RECURSIVE RStrip(_, _)
RStrip(s, ch) ==
  IF s # <<>> /\ s[Len(s)] = ch THEN RStrip(SubSeq(s, 1, Len(s) - 1), ch) ELSE s

\* str.strip() over the whitespace the identifiers of the model contain
Strip(s) == RStrip(LStrip(s, " "), " ")

\* ------------------------------------------------------------ Content Hasher
\* hashlib.sha256(content).hexdigest()
Sha256(content) == <<"sha256(">> \o content \o <<")">>

RECURSIVE JoinDigests(_)
\* "::".join(digests)
JoinDigests(digests) ==
  IF digests = <<>> THEN <<>>
  ELSE IF Len(digests) = 1 THEN digests[1]
  ELSE digests[1] \o <<":", ":">> \o JoinDigests(Tail(digests))

\* ------------------------------------------------------------------ outcomes
Ok == [status |-> "ok", exc |-> "", msg |-> ""]
Raise(e, m) == [status |-> "raise", exc |-> e, msg |-> m]
NoOutcome == [status |-> "none", exc |-> "", msg |-> ""]

\* ------------------------------------------------------------- HubFile etc.
HubFile(source, tgt, content, sha) ==
  [source |-> source, target |-> tgt, content |-> content, sha256 |-> sha]

HubPackage(id, manifest, files) ==
  [identifier |-> id, manifest |-> manifest, files |-> files]

NoPackage == HubPackage(None, EmptyMap, <<>>)
NoFile == HubFile(None, None, None, None)

\* a JSON value whose type the code inspects with isinstance(..., dict)
Dict(items) == [isdict |-> TRUE, items |-> items]
NotADict == [isdict |-> FALSE, items |-> EmptyMap]

\* ---------------------------------------------------------- load_from_hub
LoadGuardRejects_emptyOnly(id) == ~Truthy(id)

\* hub.py:68  the identifier guard of load_from_hub
LoadGuardRejects(id) == ~Truthy(id) \/ ~Contains(id, "/")

DefaultTarget(source) == LastSegment(source)

\* hub.py:84
ResolveTarget(file_spec) ==
  IF Truthy(Get(file_spec, "target")) THEN file_spec["target"]
  ELSE DefaultTarget(file_spec["source"])

FileSha256_trustDeclared(file_spec, content) ==
  IF "sha256" \in DOMAIN file_spec THEN file_spec["sha256"] ELSE Sha256(content)

\* hub.py:86
FileSha256(file_spec, content) == Sha256(content)

\* hub.py:89-91
SanitizedEntry(file_spec, content) ==
  [k \in (DOMAIN file_spec) \cup {"target", "sha256"} |->
     IF k = "target" THEN ResolveTarget(file_spec)
     ELSE IF k = "sha256" THEN FileSha256(file_spec, content)
     ELSE file_spec[k]]

\* hub.py:100-102
AggregateHash(files) ==
  Sha256(JoinDigests([i \in 1..Len(files) |-> files[i].sha256]))

SetKey(d, k, v) == [x \in (DOMAIN d) \cup {k} |-> IF x = k THEN v ELSE d[x]]
SetDefault(d, k, v) == IF k \in DOMAIN d THEN d ELSE SetKey(d, k, v)

\* hub.py:79, 94-103
MaterializedManifest(id, raw, files, updated_files) ==
  LET m1 == SetKey(raw, "files", updated_files)
      m2 == SetDefault(m1, "author", SplitHead(id))
      m3 == SetDefault(m2, "name", SplitTail(id))
      m4 == IF "metadata" \in DOMAIN m3 /\ m3["metadata"].isdict THEN m3
            ELSE SetKey(m3, "metadata", Dict(EmptyMap))
      m5 == IF files # <<>> THEN SetKey(m4, "hash", AggregateHash(files)) ELSE m4
  IN SetKey(m5, "slug", id)

\* The registry as PackageRepository presents it to load_from_hub:
\* get_package(identifier) either raises PackageNotFoundError or returns a
\* package with .raw (the manifest mapping) and .files (its file entries);
\* fetch_bytes(source) returns bytes or raises.  fetched[i] is what the i-th
\* fetch_bytes call of this load returns.
FetchFails == <<"FetchFails">>

RepoFiles(reg) == reg.raw["files"]

\* index of the first file whose fetch raises, 0 if none
FirstFailure(reg) ==
  IF \E i \in 1..Len(reg.fetched) : reg.fetched[i] = FetchFails
    THEN CHOOSE i \in 1..Len(reg.fetched) :
           /\ reg.fetched[i] = FetchFails
           /\ \A j \in 1..(i - 1) : reg.fetched[j] # FetchFails
    ELSE 0

\* hub.py:61-105: the outcome, the returned package and the registry accesses
LoadFromHub(id, reg) ==
  IF LoadGuardRejects(id)
    THEN [outcome |-> Raise("PackageNotFoundError", "invalid_identifier"),
          package |-> NoPackage, events |-> <<>>]
  ELSE IF ~reg.found
    THEN [outcome |-> Raise("PackageNotFoundError", "unknown_package"),
          package |-> NoPackage, events |-> << <<"get_package", id>> >>]
  ELSE
    LET specs == RepoFiles(reg)
        fail  == FirstFailure(reg)
        n     == IF fail = 0 THEN Len(specs) ELSE fail
        fetches == [i \in 1..n |-> <<"fetch_bytes", specs[i]["source"]>>]
        files == [i \in 1..Len(specs) |->
                    HubFile(specs[i]["source"], ResolveTarget(specs[i]),
                            reg.fetched[i], FileSha256(specs[i], reg.fetched[i]))]
        updated_files == [i \in 1..Len(specs) |-> SanitizedEntry(specs[i], reg.fetched[i])]
    IN IF fail # 0
         THEN [outcome |-> Raise("RegistryError", "fetch_failed"),
               package |-> NoPackage,
               events |-> << <<"get_package", id>> >> \o fetches]
         ELSE [outcome |-> Ok,
               package |-> HubPackage(id, MaterializedManifest(id, reg.raw, files, updated_files), files),
               events |-> << <<"get_package", id>> >> \o fetches]

\* hub.py:388-398 (TRUE when _split_identifier raises PackageNotFoundError)
SplitIdentifierRaises(id) ==
  \/ ~Contains(id, "/")
  \/ SplitHead(id) = <<>>
  \/ SplitTail(id) = <<>>

\* ------------------------------------------------------------ input domains
Identifiers ==
  { <<>>, <<"a">>, <<"b">>, <<"a", "/">>, <<"/", "b">>, <<"a", "/", "b">>,
    <<"a", "/", "b", "/", "c">>, <<" ", "a", " ">> }

Content1 == <<"x">>
Content2 == <<"y">>

FileSpecs ==
  { [source |-> <<"p", "/", "f">>],
    [source |-> <<"g">>, target |-> <<"t">>],
    [source |-> <<"p", "/", "f">>, sha256 |-> Sha256(Content1)],
    [source |-> <<"g">>, target |-> <<"t">>, sha256 |-> Sha256(Content1)] }

FetchResults == {Content1, Content2, FetchFails}

SeqsUpTo(S, n) == UNION { [1..k -> S] : k \in 0..n }

StaleHash == Sha256(<<"s", "t", "a", "l", "e">>)

RawExtras ==
  { EmptyMap,
    [hash |-> StaleHash],
    [metadata |-> NotADict, author |-> <<"z">>],
    [hash |-> StaleHash, metadata |-> Dict([k |-> "E"]), name |-> <<"n">>] }

NoRegistry == [found |-> FALSE, raw |-> [files |-> <<>>], fetched |-> <<>>]

Registries ==
  { NoRegistry } \cup
  UNION { { [found |-> TRUE, raw |-> SetKey(x, "files", fs), fetched |-> ft] :
              x \in RawExtras, fs \in [1..k -> FileSpecs], ft \in [1..k -> FetchResults] } :
          k \in 0..MaxFiles }

\* ------------------------------------------------------------ idle defaults
NoInstance == [callable |-> FALSE, load |-> "absent", save |-> "absent", cls |-> ""]
NoProgram == [callable |-> FALSE, load |-> "absent", save |-> "absent", cls |-> "",
              call |-> "none", r_load |-> "absent", r_save |-> "absent", r_cls |-> ""]
NoRequest == [sent |-> FALSE, endpoint |-> <<>>, authorization |-> None,
              manifest |-> EmptyMap, metadata |-> EmptyMap, files |-> <<>>]

Init ==
  /\ pc = "idle" /\ op = "" /\ identifier = None /\ registry = NoRegistry
  /\ package = NoPackage /\ origin = "" /\ outcome = NoOutcome /\ events = <<>>
  /\ program = NoProgram /\ instance = NoInstance /\ target = None
  /\ selected = NoFile /\ tmpdir = FALSE /\ pending = NoOutcome /\ artifact = None
  /\ artifact_name = None
  /\ package_metadata = EmptyMap /\ dev_key = None /\ env_key = None
  /\ request = NoRequest

ProgramVarsIdle ==
  /\ program' = NoProgram /\ instance' = NoInstance /\ target' = None
  /\ selected' = NoFile /\ tmpdir' = FALSE /\ pending' = NoOutcome /\ artifact' = None
  /\ artifact_name' = None

PublishVarsIdle ==
  /\ package_metadata' = EmptyMap /\ dev_key' = None /\ env_key' = None
  /\ request' = NoRequest

\* a call of load_from_hub(identifier) against a registry answering as reg
CallLoadFromHub(Regs) ==
  /\ pc = "idle"
  /\ \E id \in Identifiers, reg \in Regs :
       LET r == LoadFromHub(id, reg) IN
         /\ op' = "load_from_hub" /\ identifier' = id /\ registry' = reg
         /\ package' = r.package /\ outcome' = r.outcome /\ events' = r.events
         /\ origin' = IF r.outcome = Ok THEN "load_from_hub" ELSE ""
  /\ pc' = "done"
  /\ ProgramVarsIdle /\ PublishVarsIdle

LoadFromHubCall == CallLoadFromHub(Registries)

NextLoad == LoadFromHubCall

SpecLoad == Init /\ [][NextLoad]_vars

LoadReturned == op = "load_from_hub" /\ pc = "done" /\ outcome = Ok

\* C1 (as claimed): the manifest of every package returned by load_from_hub
\* or by _package_program lists its files 1:1 by target, carries the
\* aggregate hash of the files' digests when there are files, and has no
\* "hash" key when there are none.
C1_ManifestMatchesFiles ==
  (pc = "done" /\ outcome = Ok /\ origin \in {"load_from_hub", "_package_program"}) =>
    /\ Len(package.manifest["files"]) = Len(package.files)
    /\ \A i \in 1..Len(package.files) :
         package.manifest["files"][i]["target"] = package.files[i].target
    /\ package.files # <<>> =>
         /\ "hash" \in DOMAIN package.manifest
         /\ package.manifest["hash"] = AggregateHash(package.files)
    /\ package.files = <<>> => "hash" \notin DOMAIN package.manifest

\* C2: every returned HubFile's sha256 is the digest of the bytes fetched for
\* it, and the returned manifest's entry carries that digest, whatever digest
\* the registry declared.
C2_DigestsRecomputed ==
  LoadReturned =>
    \A i \in 1..Len(package.files) :
      /\ package.files[i].content = registry.fetched[i]
      /\ package.files[i].sha256 = Sha256(registry.fetched[i])
      /\ package.manifest["files"][i]["sha256"] = Sha256(registry.fetched[i])

C2_Witness ==
  /\ LoadReturned
  /\ \E i \in 1..Len(package.files) :
       /\ "sha256" \in DOMAIN RepoFiles(registry)[i]
       /\ RepoFiles(registry)[i]["sha256"] # Sha256(registry.fetched[i])
       /\ package.manifest["files"][i]["sha256"] = Sha256(registry.fetched[i])

\* C3 (as claimed): an identifier that is not author/name with both segments
\* non-empty makes load_from_hub raise PackageNotFoundError without any
\* registry access.
C3_MalformedRejectedBeforeAccess ==
  (op = "load_from_hub" /\ pc = "done" /\ SplitIdentifierRaises(identifier)) =>
    /\ outcome.status = "raise" /\ outcome.exc = "PackageNotFoundError"
    /\ events = <<>>

\* ------------------------------------------------------ _select_package_file
MaxOf(S) == CHOOSE x \in S : \A y \in S : y <= x
MinOf(S) == CHOOSE x \in S : \A y \in S : x <= y

\* hub.py:52-53  HubPackage.file_map() followed by .get(target): the dict
\* comprehension keeps, for a repeated target, the entry written last.
\* The index of the file the map holds for tgt, 0 when the key is absent.
FileMapIndex(files, tgt) ==
  LET same == {i \in 1..Len(files) : files[i].target = tgt}
  IN IF same = {} THEN 0 ELSE MaxOf(same)

\* hub.py:363-367  next(... endswith(basename) ...), 0 when exhausted
SuffixIndex(files, tgt) ==
  LET ends == {i \in 1..Len(files) : EndsWith(files[i].target, LastSegment(tgt))}
  IN IF ends = {} THEN 0 ELSE MinOf(ends)

\* hub.py:358-373
SelectPackageFile(pkg, tgt) ==
  IF Truthy(tgt)
    THEN LET exact == FileMapIndex(pkg.files, tgt)
             idx   == IF exact # 0 THEN exact ELSE SuffixIndex(pkg.files, tgt)
         IN IF idx # 0
              THEN [outcome |-> Ok, file |-> pkg.files[idx]]
              ELSE [outcome |-> Raise("RegistryError", "artifact_not_found"), file |-> NoFile]
  ELSE IF pkg.files = <<>>
    THEN [outcome |-> Raise("IndexError", "no_files"), file |-> NoFile]
    ELSE [outcome |-> Ok, file |-> pkg.files[1]]

\* packages a caller can hold: consistent manifests over a list of files
ManifestOf(name, files) ==
  LET base == [slug |-> name, name |-> name,
               files |-> [i \in 1..Len(files) |->
                            [source |-> files[i].source, target |-> files[i].target,
                             sha256 |-> files[i].sha256]],
               metadata |-> Dict(EmptyMap)]
  IN IF files = <<>> THEN base ELSE SetKey(base, "hash", AggregateHash(files))

SelectTargets == { <<"t">>, <<"d", "/", "t">>, <<"u">> }

SelectFiles ==
  { HubFile(<<"g">>, t, c, Sha256(c)) : t \in SelectTargets, c \in {Content1, Content2} }

SelectPackages ==
  { HubPackage(<<"a">>, ManifestOf(<<"a">>, fs), fs) : fs \in SeqsUpTo(SelectFiles, MaxFiles) }

Hints ==
  { None, <<>>, <<"t">>, <<"d", "/", "t">>, <<"x", "/", "t">>, <<"z">>, <<"d", "/">> }

InitSelect ==
  /\ pc = "idle" /\ op = "" /\ identifier = None /\ registry = NoRegistry
  /\ package \in SelectPackages /\ origin = "caller" /\ outcome = NoOutcome /\ events = <<>>
  /\ program = NoProgram /\ instance = NoInstance /\ target = None
  /\ selected = NoFile /\ tmpdir = FALSE /\ pending = NoOutcome /\ artifact = None
  /\ artifact_name = None
  /\ package_metadata = EmptyMap /\ dev_key = None /\ env_key = None
  /\ request = NoRequest

\* a call of _select_package_file(package, target) on the package at hand
SelectPackageFileCall ==
  /\ pc = "idle"
  /\ \E hint \in Hints :
       LET r == SelectPackageFile(package, hint) IN
         /\ target' = hint /\ selected' = r.file /\ outcome' = r.outcome
  /\ op' = "_select_package_file" /\ pc' = "done"
  /\ UNCHANGED <<identifier, registry, package, origin, events, program, instance,
                 tmpdir, pending, artifact, artifact_name, package_metadata, dev_key,
                 env_key, request>>

NextSelect == SelectPackageFileCall

SpecSelect == InitSelect /\ [][NextSelect]_vars

ExactMatches(files, tgt) == {i \in 1..Len(files) : files[i].target = tgt}
SuffixMatches(files, tgt) ==
  {i \in 1..Len(files) : EndsWith(files[i].target, LastSegment(tgt))}

\* C5 (as claimed): on non-empty files, no hint selects files[0]; a hint
\* selects the first file whose target equals it, else the first file whose
\* target ends with the hint's basename, else the artifact-not-found error.
C5_FirstMatchWins ==
  (op = "_select_package_file" /\ pc = "done" /\ package.files # <<>>) =>
    IF target = None
      THEN outcome = Ok /\ selected = package.files[1]
    ELSE IF ExactMatches(package.files, target) # {}
      THEN outcome = Ok /\ selected = package.files[MinOf(ExactMatches(package.files, target))]
    ELSE IF SuffixMatches(package.files, target) # {}
      THEN outcome = Ok /\ selected = package.files[MinOf(SuffixMatches(package.files, target))]
    ELSE outcome = Raise("RegistryError", "artifact_not_found")

\* ------------------------------------------------------------- save_to_hub
DotJson == <<".", "j", "s", "o", "n">>
DotPy   == <<".", "p", "y">>
DotMd   == <<".", "m", "d">>
DotTxt  == <<".", "t", "x", "t">>

\* hub.py:401-410
GuessMime(path) ==
  IF EndsWith(path, DotJson) THEN "application/json"
  ELSE IF EndsWith(path, DotPy) THEN "text/x-python"
  ELSE IF EndsWith(path, DotMd) THEN "text/markdown"
  ELSE IF EndsWith(path, DotTxt) THEN "text/plain"
  ELSE "application/octet-stream"

\* base64.b64encode(content).decode("ascii"), symbolic like Sha256
Base64(content) == <<"b64(">> \o content \o <<")">>

PackagesSlash == <<"p", "a", "c", "k", "a", "g", "e", "s", "/">>
ApiPackages == <<"a", "p", "i", "/">> \o PackagesSlash
Bearer == <<"B", "e", "a", "r", "e", "r", " ">>

IdentifierMismatch_stripped(idArg, name) == Truthy(idArg) /\ Strip(idArg) # name

\* hub.py:163
IdentifierMismatch(idArg, name) == Truthy(idArg) /\ idArg # name

DevToken_default(devKey, envKey) ==
  IF Truthy(devKey) THEN devKey ELSE IF Truthy(envKey) THEN envKey ELSE <<"d", "e", "v">>

\* hub.py:178  dev_key or os.getenv(DEV_KEY_ENV)
DevToken(devKey, envKey) == IF Truthy(devKey) THEN devKey ELSE envKey

MergedMetadata_embeddedWins(embedded, caller) == MergeMaps(caller, embedded)

\* hub.py:186  {**package.manifest.get("metadata", {}), **(package_metadata or {})}
MergedMetadata(embedded, caller) == MergeMaps(embedded, caller)

\* hub.py:188-198, 222
PayloadManifest(pkg, name, meta, merged, manifest_files) ==
  LET m0 == pkg.manifest
      m1 == SetKey(m0, "name", name)
      m2 == SetKey(m1, "version",
                   IF "version" \in DOMAIN meta THEN meta["version"]
                   ELSE IF "version" \in DOMAIN m1 THEN m1["version"] ELSE "0.0.0")
      m3 == SetKey(m2, "description",
                   IF "description" \in DOMAIN meta THEN meta["description"]
                   ELSE IF "description" \in DOMAIN m2 THEN m2["description"] ELSE "")
      m4 == IF "tags" \in DOMAIN meta THEN SetKey(m3, "tags", meta["tags"]) ELSE m3
      m5 == SetKey(m4, "metadata", Dict(merged))
  IN SetKey(m5, "files", manifest_files)

\* hub.py:202-220
ManifestFiles(pkg, name) ==
  [i \in 1..Len(pkg.files) |->
     [source |-> IF Truthy(pkg.files[i].source) THEN pkg.files[i].source
                 ELSE PackagesSlash \o name \o <<"/">> \o LStrip(pkg.files[i].target, "/"),
      target |-> pkg.files[i].target,
      sha256 |-> pkg.files[i].sha256]]

FilesPayload(pkg) ==
  [i \in 1..Len(pkg.files) |->
     [path |-> LStrip(pkg.files[i].target, "/"),
      target |-> pkg.files[i].target,
      sha256 |-> pkg.files[i].sha256,
      content |-> Base64(pkg.files[i].content),
      contentType |-> GuessMime(pkg.files[i].target)]]

\* what urlopen does with the PUT request
Responses == {"json", "http_error", "url_error", "not_json"}

\* hub.py:246-260
ResponseOutcome(response) ==
  IF response = "json" THEN Ok
  ELSE IF response = "http_error" THEN Raise("RegistryError", "publish_failed")
  ELSE IF response = "url_error" THEN Raise("RegistryError", "unreachable")
  ELSE Raise("RegistryError", "invalid_json_response")

Failed(o) == [outcome |-> o, request |-> NoRequest, events |-> <<>>]

\* hub.py:144-260: the outcome, the request sent (if any) and the HTTP events
SaveToHub(idArg, pkg, meta, devKey, envKey, response) ==
  LET name == pkg.identifier IN
  IF IdentifierMismatch(idArg, name)
    THEN Failed(Raise("ValueError", "identifier_mismatch"))
  ELSE IF Contains(name, "/")
    THEN Failed(Raise("ValueError", "identifier_has_author"))
  ELSE IF ~Truthy(DevToken(devKey, envKey))
    THEN Failed(Raise("RegistryError", "dev_key_missing"))
  ELSE IF "metadata" \in DOMAIN pkg.manifest /\ ~pkg.manifest["metadata"].isdict
    THEN Failed(Raise("TypeError", "metadata_not_a_mapping"))
  ELSE
    LET embedded == IF "metadata" \in DOMAIN pkg.manifest
                      THEN pkg.manifest["metadata"].items ELSE EmptyMap
        merged == MergedMetadata(embedded, meta)
    IN [outcome |-> ResponseOutcome(response),
        request |-> [sent |-> TRUE,
                     endpoint |-> ApiPackages \o name,
                     authorization |-> Bearer \o DevToken(devKey, envKey),
                     manifest |-> PayloadManifest(pkg, name, meta, merged, ManifestFiles(pkg, name)),
                     metadata |-> merged,
                     files |-> FilesPayload(pkg)],
        events |-> << <<"http_put", ApiPackages \o name>> >>]

\* ------------------------------------------------------- publish-side inputs
MetadataKeys == {"k", "version", "module_type"}

\* caller metadata: every mapping over a subset of the keys, values marked "C"
CallerMetadata == UNION { [K -> {"C"}] : K \in SUBSET MetadataKeys }

\* metadata embedded in an artifact or manifest, values marked "E"
EmbeddedMetadata == UNION { [K -> {"E"}] : K \in SUBSET {"k", "module_type"} }

DevKeys == { None, <<>>, <<"k", "1">> }
EnvKeys == { None, <<>>, <<"k", "2">> }

CallerFileLists ==
  { <<>>,
    << HubFile(<<>>, <<"/", "m">> \o DotJson, Content1, Sha256(Content1)) >>,
    << HubFile(<<"g">>, <<"m">> \o DotPy, Content1, Sha256(Content1)),
       HubFile(<<>>, <<"r">> \o DotMd, Content2, Sha256(Content2)) >>,
    << HubFile(<<"g">>, <<"n">> \o DotTxt, Content2, Sha256(Content2)),
       HubFile(<<"g">>, <<"b", "i", "n">>, Content2, Sha256(Content2)) >> }

CallerManifests(name, files) ==
  { ManifestOf(name, files),
    SetKey(ManifestOf(name, files), "metadata", Dict([k |-> "E"])),
    SetKey(ManifestOf(name, files), "metadata", NotADict),
    [k \in (DOMAIN ManifestOf(name, files)) \ {"metadata"} |-> ManifestOf(name, files)[k]] }

\* HubPackage values a caller can construct (the dataclass is public)
CallerPackages ==
  UNION { { HubPackage(id, m, fs) : m \in CallerManifests(id, fs) } :
          id \in Identifiers, fs \in CallerFileLists }

\* registry answers used when a fetched package is handed on to publication
PublishRegistries ==
  { NoRegistry } \cup
  { [found |-> TRUE, raw |-> SetKey(x, "files", <<>>), fetched |-> <<>>] : x \in RawExtras } \cup
  { [found |-> TRUE, raw |-> SetKey(x, "files", << [source |-> <<"p", "/", "f">>] >>),
     fetched |-> << Content1 >>] : x \in RawExtras }

\* the caller builds a HubPackage by hand
ConstructPackage ==
  /\ pc = "idle"
  /\ package' \in CallerPackages
  /\ op' = "HubPackage" /\ origin' = "caller" /\ outcome' = Ok /\ pc' = "done"
  /\ UNCHANGED <<identifier, registry, events>>
  /\ ProgramVarsIdle /\ PublishVarsIdle

LoadForPublish == CallLoadFromHub(PublishRegistries)

\* save_to_hub(identifier, package, package_metadata, dev_key=...) on the
\* package the caller holds, with DSPY_HUB_DEV_KEY = env_key
SaveToHubCall ==
  /\ pc = "done" /\ op \in {"HubPackage", "load_from_hub"} /\ outcome = Ok
  /\ \E idArg \in Identifiers, meta \in CallerMetadata, dk \in DevKeys, ek \in EnvKeys,
        response \in Responses :
       LET r == SaveToHub(idArg, package, meta, dk, ek, response) IN
         /\ identifier' = idArg /\ package_metadata' = meta
         /\ dev_key' = dk /\ env_key' = ek
         /\ outcome' = r.outcome /\ request' = r.request /\ events' = events \o r.events
  /\ op' = "save_to_hub" /\ pc' = "done"
  /\ UNCHANGED <<registry, package, origin>>
  /\ ProgramVarsIdle

\* ------------------------------------------------- program load/save boundary
Attrs == {"absent", "not_callable", "callable"}
Classes == {"Predict", "MyModule"}

\* hub.py:377  the program is treated as a zero-argument factory
IsFactoryCall(p) == p.callable /\ p.load = "absent"

\* program objects: an attribute is absent, present but not callable, or
\* callable; a program that is called as a factory raises or returns an object
Programs ==
  { p \in [callable : BOOLEAN, load : Attrs, save : Attrs, cls : Classes,
           call : {"none"}, r_load : {"absent"}, r_save : {"absent"}, r_cls : {""}] :
      ~IsFactoryCall(p) }
  \cup
  { [callable |-> TRUE, load |-> "absent", save |-> sv, cls |-> "function",
     call |-> "raises", r_load |-> "absent", r_save |-> "absent", r_cls |-> ""] :
      sv \in {"absent", "callable"} }
  \cup
  { [callable |-> TRUE, load |-> "absent", save |-> sv, cls |-> "function",
     call |-> "returns", r_load |-> l, r_save |-> rs, r_cls |-> k] :
      sv \in {"absent", "callable"}, l \in Attrs, rs \in Attrs, k \in Classes }

\* hub.py:376-385
EnsureProgramInstance(p) ==
  IF IsFactoryCall(p) /\ p.call = "raises"
    THEN [outcome |-> Raise("Exception", "factory_raised"), instance |-> NoInstance]
  ELSE
    LET candidate ==
          IF IsFactoryCall(p)
            THEN [callable |-> FALSE, load |-> p.r_load, save |-> p.r_save, cls |-> p.r_cls]
            ELSE [callable |-> p.callable, load |-> p.load, save |-> p.save, cls |-> p.cls]
    IN IF candidate.load = "absent"
         THEN [outcome |-> Raise("TypeError", "no_load_attribute"), instance |-> NoInstance]
         ELSE [outcome |-> Ok, instance |-> candidate]

TmpdirAfterExit_onlyOnSuccess(exc) == exc.status = "raise"

\* TemporaryDirectory.__exit__: whether the directory still exists after the
\* with block is left with exc pending (hub.py:131, 315)
TmpdirAfterExit(exc) == FALSE

Event(kind) == <<kind, <<>>>>

LoadHints == { None, <<"f">>, <<"z">> }

\* hub.py:124-129  load_program_from_hub up to the with statement
LoadProgramFromHub_Begin ==
  /\ pc = "idle"
  /\ \E id \in Identifiers, reg \in PublishRegistries, p \in Programs, hint \in LoadHints :
       LET r   == LoadFromHub(id, reg)
           e   == EnsureProgramInstance(p)
           sel == SelectPackageFile(r.package, hint)
           o   == IF r.outcome # Ok THEN r.outcome
                  ELSE IF r.package.files = <<>> THEN Raise("RegistryError", "no_files")
                  ELSE IF e.outcome # Ok THEN e.outcome
                  ELSE sel.outcome
       IN /\ identifier' = id /\ registry' = reg /\ program' = p /\ target' = hint
          /\ events' = r.events
          /\ package' = r.package
          /\ origin' = IF r.outcome = Ok THEN "load_from_hub" ELSE ""
          /\ instance' = IF o = Ok THEN e.instance ELSE NoInstance
          /\ selected' = IF o = Ok THEN sel.file ELSE NoFile
          /\ outcome' = IF o = Ok THEN NoOutcome ELSE o
          /\ pc' = IF o = Ok THEN "lp_with" ELSE "done"
  /\ op' = "load_program_from_hub"
  /\ tmpdir' = FALSE /\ pending' = NoOutcome /\ artifact' = None /\ artifact_name' = None
  /\ PublishVarsIdle

\* hub.py:131 / 315  TemporaryDirectory(): the directory is created, or the
\* creation itself raises
EnterWith(next) ==
  \/ /\ tmpdir' = TRUE /\ events' = Append(events, Event("mkdtemp"))
     /\ pc' = next /\ UNCHANGED outcome
  \/ /\ outcome' = Raise("OSError", "mkdtemp_failed") /\ pc' = "done"
     /\ UNCHANGED <<tmpdir, events>>

\* leaving the with block: cleanup, then the pending exception propagates
ExitWith(next) ==
  /\ tmpdir' = TmpdirAfterExit(pending)
  /\ events' = IF TmpdirAfterExit(pending) THEN events ELSE Append(events, Event("rmtree"))
  /\ IF pending.status = "raise"
       THEN outcome' = pending /\ pc' = "done"
       ELSE UNCHANGED outcome /\ pc' = next

LoadProgramFromHub_EnterWith ==
  /\ pc = "lp_with"
  /\ EnterWith("lp_write")
  /\ UNCHANGED <<op, identifier, registry, package, origin, program, instance, target,
                 selected, pending, artifact, artifact_name, package_metadata, dev_key,
                 env_key, request>>

\* hub.py:132-133  write the selected file into the directory
LoadProgramFromHub_Write ==
  /\ pc = "lp_write"
  /\ \/ artifact' = selected.content /\ pc' = "lp_load" /\ UNCHANGED pending
     \/ pending' = Raise("OSError", "write_failed") /\ pc' = "lp_exit" /\ UNCHANGED artifact
  /\ UNCHANGED <<op, identifier, registry, package, origin, outcome, events, program,
                 instance, target, selected, tmpdir, artifact_name, package_metadata,
                 dev_key, env_key, request>>

\* hub.py:134-139  look the loader up and invoke it
LoadProgramFromHub_Load ==
  /\ pc = "lp_load"
  /\ IF instance.load # "callable"
       THEN pending' = Raise("TypeError", "load_not_callable") /\ UNCHANGED events
       ELSE /\ events' = Append(events, Event("invoke_load"))
            /\ \/ pending' = NoOutcome
               \/ pending' = Raise("Exception", "load_raised")
  /\ pc' = "lp_exit"
  /\ UNCHANGED <<op, identifier, registry, package, origin, outcome, program, instance,
                 target, selected, tmpdir, artifact, artifact_name, package_metadata,
                 dev_key, env_key, request>>

\* hub.py:139-141  end of the with block, then return instance
LoadProgramFromHub_ExitWith ==
  /\ pc = "lp_exit"
  /\ ExitWith("lp_return")
  /\ UNCHANGED <<op, identifier, registry, package, origin, program, instance, target,
                 selected, pending, artifact, artifact_name, package_metadata, dev_key,
                 env_key, request>>

LoadProgramFromHub_Return ==
  /\ pc = "lp_return"
  /\ outcome' = Ok /\ pc' = "done"
  /\ UNCHANGED <<op, identifier, registry, package, origin, events, program, instance,
                 target, selected, tmpdir, pending, artifact, artifact_name,
                 package_metadata, dev_key, env_key, request>>

\* ----------------------------------------------------------- _package_program
\* the artifact as structured data: a JSON scalar, or an object with or
\* without a "metadata" member, which is a mapping or something else
Docs ==
  { [kind |-> "scalar", has |-> FALSE, metadata |-> NotADict],
    [kind |-> "object", has |-> FALSE, metadata |-> NotADict],
    [kind |-> "object", has |-> TRUE, metadata |-> NotADict] }
  \cup { [kind |-> "object", has |-> TRUE, metadata |-> Dict(E)] : E \in EmbeddedMetadata }

DumpItems(items) ==
  (IF "k" \in DOMAIN items THEN <<"k", "=", items["k"], ",">> ELSE <<>>)
  \o (IF "module_type" \in DOMAIN items THEN <<"t", "=", items["module_type"]>> ELSE <<>>)

\* the bytes of a document
JsonDumps(doc) ==
  IF doc.kind = "scalar" THEN <<"5">>
  ELSE <<"{">>
       \o (IF ~doc.has THEN <<>>
           ELSE <<"m", ":">> \o (IF doc.metadata.isdict
                                   THEN <<"{">> \o DumpItems(doc.metadata.items) \o <<"}">>
                                   ELSE <<"7">>))
       \o <<"}">>

NotJson == <<"?">>

\* hub.py:324  json.loads(content.decode("utf-8")): the document whose bytes
\* these are, or a decode error
JsonLoads(bytes) ==
  IF \E d \in Docs : JsonDumps(d) = bytes
    THEN [ok |-> TRUE, doc |-> CHOOSE d \in Docs : JsonDumps(d) = bytes]
    ELSE [ok |-> FALSE, doc |-> [kind |-> "scalar", has |-> FALSE, metadata |-> NotADict]]

ArtifactContents == { JsonDumps(d) : d \in Docs } \cup { NotJson }

KnownTypes == {"Predict", "ChainOfThought", "ChainOfThoughtWithHint",
               "ProgramOfThought", "ReAct", "MultiChainComparison"}

\* hub.py:413-435 ("" stands for None)
DetectModuleType(inst) == IF inst.cls \in KnownTypes THEN inst.cls ELSE ""

\* hub.py:321-333  metadata recovered from the artifact, then module_type
DspyMetadata(parsed, inst) ==
  LET embedded == IF parsed.ok /\ parsed.doc.has /\ parsed.doc.metadata.isdict
                    THEN parsed.doc.metadata.items ELSE EmptyMap
  IN IF DetectModuleType(inst) # ""
       THEN SetKey(embedded, "module_type", DetectModuleType(inst))
       ELSE embedded

\* hub.py:313
ArtifactFilename(name, artifactName) ==
  IF Truthy(artifactName) THEN artifactName ELSE name \o DotJson

\* hub.py:321-355  the package built from the bytes the saver wrote
BuildPackage(name, artifactName, content, inst) ==
  LET parsed == JsonLoads(content)
      filename == ArtifactFilename(name, artifactName)
      sha == Sha256(content)
      storage_path == PackagesSlash \o name \o <<"/">> \o filename
  IN IF parsed.ok /\ parsed.doc.kind = "scalar"
       THEN [outcome |-> Raise("TypeError", "json_value_not_a_container"),
             package |-> NoPackage]
       ELSE [outcome |-> Ok,
             package |->
               HubPackage(name,
                 [slug |-> name, name |-> name,
                  files |-> << [source |-> storage_path, target |-> filename, sha256 |-> sha] >>,
                  metadata |-> Dict(DspyMetadata(parsed, inst)),
                  hash |-> Sha256(sha)],
                 << HubFile(storage_path, filename, content, sha) >>)]

ArtifactNames == { None, <<"w">> \o DotPy }

\* hub.py:298-313  _package_program (directly or from save_program_to_hub,
\* hub.py:279) up to the with statement
PackageProgram_Begin ==
  /\ pc = "idle"
  /\ op' \in {"_package_program", "save_program_to_hub"}
  /\ \E id \in Identifiers, p \in Programs, an \in ArtifactNames :
       LET e == EnsureProgramInstance(p)
           name == Strip(id)
           o == IF e.outcome # Ok THEN e.outcome
                ELSE IF e.instance.save # "callable"
                  THEN Raise("TypeError", "save_not_callable")
                ELSE IF name = <<>> \/ Contains(name, "/")
                  THEN Raise("ValueError", "identifier_has_author")
                ELSE Ok
       IN /\ identifier' = id /\ program' = p /\ artifact_name' = an
          /\ instance' = IF o = Ok THEN e.instance ELSE NoInstance
          /\ outcome' = IF o = Ok THEN NoOutcome ELSE o
          /\ pc' = IF o = Ok THEN "pp_with" ELSE "done"
  /\ registry' = NoRegistry /\ package' = NoPackage /\ origin' = "" /\ events' = <<>>
  /\ target' = None /\ selected' = NoFile /\ tmpdir' = FALSE /\ pending' = NoOutcome
  /\ artifact' = None
  /\ PublishVarsIdle

PackageProgram_EnterWith ==
  /\ pc = "pp_with"
  /\ EnterWith("pp_save")
  /\ UNCHANGED <<op, identifier, registry, package, origin, program, instance, target,
                 selected, pending, artifact, artifact_name, package_metadata, dev_key,
                 env_key, request>>

\* hub.py:316-318  invoke the saver on the path inside the directory: it
\* raises, or returns having written some bytes, or returns without writing
PackageProgram_Save ==
  /\ pc = "pp_save"
  /\ events' = Append(events, Event("invoke_save"))
  /\ \/ pending' = Raise("Exception", "save_raised") /\ pc' = "pp_exit" /\ UNCHANGED artifact
     \/ artifact' \in ArtifactContents /\ pc' = "pp_read" /\ UNCHANGED pending
     \/ pc' = "pp_read" /\ UNCHANGED <<artifact, pending>>
  /\ UNCHANGED <<op, identifier, registry, package, origin, outcome, program, instance,
                 target, selected, tmpdir, artifact_name, package_metadata, dev_key,
                 env_key, request>>

\* hub.py:319  read the artifact back
PackageProgram_Read ==
  /\ pc = "pp_read"
  /\ pending' = IF artifact = None THEN Raise("FileNotFoundError", "artifact_missing")
                ELSE NoOutcome
  /\ pc' = "pp_exit"
  /\ UNCHANGED <<op, identifier, registry, package, origin, outcome, events, program,
                 instance, target, selected, tmpdir, artifact, artifact_name,
                 package_metadata, dev_key, env_key, request>>

PackageProgram_ExitWith ==
  /\ pc = "pp_exit"
  /\ ExitWith("pp_build")
  /\ UNCHANGED <<op, identifier, registry, package, origin, program, instance, target,
                 selected, pending, artifact, artifact_name, package_metadata, dev_key,
                 env_key, request>>

\* hub.py:321-355  build and return the HubPackage
PackageProgram_Build ==
  /\ pc = "pp_build"
  /\ LET r == BuildPackage(Strip(identifier), artifact_name, artifact, instance) IN
       /\ package' = r.package
       /\ origin' = IF r.outcome = Ok THEN "_package_program" ELSE ""
       /\ IF r.outcome # Ok THEN outcome' = r.outcome /\ pc' = "done"
          ELSE IF op = "_package_program" THEN outcome' = Ok /\ pc' = "done"
          ELSE UNCHANGED outcome /\ pc' = "sp_save"
  /\ UNCHANGED <<op, identifier, registry, events, program, instance, target, selected,
                 tmpdir, pending, artifact, artifact_name, package_metadata, dev_key,
                 env_key, request>>

\* hub.py:280-286  save_program_to_hub hands the package to save_to_hub
SaveProgramToHub_Save ==
  /\ pc = "sp_save"
  /\ \E meta \in CallerMetadata, dk \in DevKeys, ek \in EnvKeys, response \in Responses :
       LET r == SaveToHub(identifier, package, meta, dk, ek, response) IN
         /\ package_metadata' = meta /\ dev_key' = dk /\ env_key' = ek
         /\ outcome' = r.outcome /\ request' = r.request /\ events' = events \o r.events
  /\ pc' = "done"
  /\ UNCHANGED <<op, identifier, registry, package, origin, program, instance, target,
                 selected, tmpdir, pending, artifact, artifact_name>>

Next ==
  \/ ConstructPackage
  \/ LoadForPublish
  \/ SaveToHubCall
  \/ LoadProgramFromHub_Begin
  \/ LoadProgramFromHub_EnterWith
  \/ LoadProgramFromHub_Write
  \/ LoadProgramFromHub_Load
  \/ LoadProgramFromHub_ExitWith
  \/ LoadProgramFromHub_Return
  \/ PackageProgram_Begin
  \/ PackageProgram_EnterWith
  \/ PackageProgram_Save
  \/ PackageProgram_Read
  \/ PackageProgram_ExitWith
  \/ PackageProgram_Build
  \/ SaveProgramToHub_Save

Spec == Init /\ [][Next]_vars

SaveReturned == op \in {"save_to_hub", "save_program_to_hub"} /\ pc = "done"
SaveToHubReached == SaveReturned /\ package # NoPackage

HttpEvents == {i \in 1..Len(events) : events[i][1] = "http_put"}
NoRequestSent == ~request.sent /\ HttpEvents = {}

\* C4 (as claimed): whenever the identifier argument, the empty string
\* included, differs from the package's own identifier, save_to_hub raises
\* the identifier-mismatch error and sends no request.
C4_AnyDifferentIdentifierRejected ==
  (op = "save_to_hub" /\ pc = "done" /\ identifier # package.identifier) =>
    outcome = Raise("ValueError", "identifier_mismatch") /\ NoRequestSent

\* C4 (amended): whenever a non-empty identifier argument differs from the
\* package's own identifier, save_to_hub raises the identifier-mismatch error
\* and sends no request.
C4_NonEmptyDifferentIdentifierRejected ==
  (SaveToHubReached /\ identifier # <<>> /\ identifier # package.identifier) =>
    outcome = Raise("ValueError", "identifier_mismatch") /\ NoRequestSent

C4_Witness ==
  /\ op = "save_to_hub" /\ pc = "done"
  /\ identifier # <<>> /\ identifier # package.identifier
  /\ ~Contains(package.identifier, "/") /\ Truthy(dev_key)
  /\ outcome = Raise("ValueError", "identifier_mismatch")

NoCredential == ~Truthy(dev_key) /\ ~Truthy(env_key)

\* C7 (as claimed): without a non-empty dev_key or DSPY_HUB_DEV_KEY,
\* save_to_hub raises the missing-credential error and no HTTP request is
\* issued.
C7_NoCredentialFailsFirst ==
  (SaveToHubReached /\ NoCredential) =>
    outcome = Raise("RegistryError", "dev_key_missing") /\ NoRequestSent

IdentifierChecksPass ==
  /\ ~(identifier # <<>> /\ identifier # package.identifier)
  /\ ~Contains(package.identifier, "/")

\* C7 (amended): without a non-empty dev_key or DSPY_HUB_DEV_KEY, save_to_hub
\* issues no HTTP request; it raises the missing-credential error when the
\* identifier checks that precede the credential check pass, and the
\* ValueError of the failing identifier check otherwise.
C7_NoCredentialNoRequest ==
  (SaveToHubReached /\ NoCredential) =>
    /\ NoRequestSent
    /\ IdentifierChecksPass => outcome = Raise("RegistryError", "dev_key_missing")
    /\ ~IdentifierChecksPass => (outcome.status = "raise" /\ outcome.exc = "ValueError")

C7_Witness ==
  /\ SaveToHubReached /\ NoCredential /\ IdentifierChecksPass
  /\ package.files # <<>>
  /\ outcome = Raise("RegistryError", "dev_key_missing")

\* C10: a package returned by load_from_hub has "/" in its identifier, and
\* save_to_hub on it raises ValueError without sending a request, whatever
\* the identifier argument, metadata and credential.
C10_FetchedPackageNotRepublishable ==
  /\ (origin = "load_from_hub" /\ package # NoPackage) => Contains(package.identifier, "/")
  /\ (op = "save_to_hub" /\ pc = "done" /\ origin = "load_from_hub") =>
       /\ outcome.status = "raise" /\ outcome.exc = "ValueError"
       /\ NoRequestSent

C10_Witness ==
  /\ op = "save_to_hub" /\ pc = "done" /\ origin = "load_from_hub"
  /\ identifier = package.identifier /\ Truthy(dev_key)
  /\ package.files # <<>>
  /\ outcome = Raise("ValueError", "identifier_has_author")

\* the object whose capability the call relies on: the program itself, or
\* what it returns when it is called as a factory
Candidate(p) ==
  IF IsFactoryCall(p)
    THEN [callable |-> FALSE, load |-> p.r_load, save |-> p.r_save, cls |-> p.r_cls]
    ELSE [callable |-> p.callable, load |-> p.load, save |-> p.save, cls |-> p.cls]

MissingCapability(o) ==
  /\ o.status = "raise" /\ o.exc = "TypeError"
  /\ o.msg \in {"no_load_attribute", "load_not_callable", "save_not_callable"}

PackagingReturned ==
  /\ op \in {"_package_program", "save_program_to_hub"} /\ pc = "done"
  /\ ~(IsFactoryCall(program) /\ program.call = "raises")

\* C6 (as claimed): load_program_from_hub raises the missing-capability error
\* only if there is no callable load; _package_program / save_program_to_hub
\* raise it exactly when there is no callable save, so a program with a
\* callable save and no load is packaged without that error.
C6_CapabilityErrorOnlyForExpectedOperation ==
  /\ (op = "load_program_from_hub" /\ pc = "done" /\ MissingCapability(outcome)) =>
       Candidate(program).load # "callable"
  /\ PackagingReturned =>
       (MissingCapability(outcome) <=> Candidate(program).save # "callable")

EmbeddedOf(bytes) == JsonLoads(bytes).doc.metadata.items

PublishedWithEmbeddedMapping ==
  /\ op = "save_program_to_hub" /\ pc = "done" /\ request.sent
  /\ JsonLoads(artifact).ok /\ JsonLoads(artifact).doc.has
  /\ JsonLoads(artifact).doc.metadata.isdict

IsMergeOf(merged, E, C) ==
  /\ DOMAIN merged = (DOMAIN E) \cup (DOMAIN C)
  /\ \A k \in DOMAIN C : merged[k] = C[k]
  /\ \A k \in (DOMAIN E) \ (DOMAIN C) : merged[k] = E[k]

\* C8 (as claimed): for any program class, the metadata save_program_to_hub
\* publishes has exactly the keys of the embedded mapping E and the caller
\* mapping C, with C's value on C's keys and E's value elsewhere.
C8_PublishedMetadataIsMerge ==
  PublishedWithEmbeddedMapping =>
    IsMergeOf(request.metadata, EmbeddedOf(artifact), package_metadata)

\* E with module_type set to the class name when the class is a known type
WithModuleType(E, cls) ==
  [k \in (DOMAIN E) \cup (IF cls \in KnownTypes THEN {"module_type"} ELSE {}) |->
     IF k = "module_type" /\ cls \in KnownTypes THEN cls ELSE E[k]]

\* C8 (amended): the published metadata is that merge of E and C when the
\* program's class is not one of the built-in module types; when it is, E
\* first gets module_type = the class name (replacing E's own module_type),
\* and the published metadata is the merge of that mapping and C.
C8_PublishedMetadataIsMergeWithModuleType ==
  PublishedWithEmbeddedMapping =>
    /\ IsMergeOf(request.metadata,
                 WithModuleType(EmbeddedOf(artifact), instance.cls), package_metadata)
    /\ request.manifest["metadata"] = Dict(request.metadata)

C8_Witness ==
  /\ PublishedWithEmbeddedMapping
  /\ instance.cls = "MyModule"
  /\ "k" \in DOMAIN EmbeddedOf(artifact) /\ "module_type" \in DOMAIN EmbeddedOf(artifact)
  /\ DOMAIN package_metadata = {"k", "version"}
  /\ request.metadata = [k |-> "C", version |-> "C", module_type |-> "E"]

StagingCall ==
  op \in {"load_program_from_hub", "_package_program", "save_program_to_hub"}

Invocations == {i \in 1..Len(events) : events[i][1] \in {"invoke_load", "invoke_save"}}

\* the directory exists at position i of the event log
ExistsAt(i) ==
  \E j \in 1..(i - 1) :
    /\ events[j][1] = "mkdtemp"
    /\ \A k \in (j + 1)..(i - 1) : events[k][1] # "rmtree"

\* C9: in load_program_from_hub and _package_program the staging directory
\* exists whenever the load/save capability is invoked, and it no longer
\* exists once the call has returned or raised, on every exit path.
C9_StagingDirectoryScoped ==
  StagingCall =>
    /\ \A i \in Invocations : ExistsAt(i)
    /\ pc \in {"lp_load", "pp_save"} => tmpdir
    /\ pc \in {"done", "lp_return", "pp_build", "sp_save"} => ~tmpdir

C9_Witness ==
  /\ op = "load_program_from_hub" /\ pc = "done"
  /\ outcome = Raise("Exception", "load_raised")
  /\ Invocations # {} /\ ~tmpdir
  /\ \E i \in 1..Len(events) : events[i][1] = "rmtree"

====
